---- MODULE Spec2Model ----
(***************************************************************************)
(* Model of cliapp.py: a watchdog observer delivers creation events of the *)
(* input directory to PDFHandler.on_created, which settles, counts the     *)
(* pages, renders every page in a multiprocessing Pool, aggregates the     *)
(* results and moves the original file to the processed or error folder.   *)
(* The main thread sleeps until KeyboardInterrupt, stops the observer and  *)
(* joins it.                                                               *)
(***************************************************************************)
EXTENDS Integers, Sequences, FiniteSets, TLC

\* ---- bounds of the model ------------------------------------------------
\* number of directory entries created in the input directory in one run
MaxDrops == 2
\* largest page count of a dropped document
MaxPages == 2
\* largest page count of a dropped document where progress is checked
MaxLivePages == 1

\* ---- configuration (cliapp.py:14-20) -------------------------------------
INPUT_DIR == "pdf_input"
OUTPUT_DIR == "images_output"
PROCESSED_DIR == "pdf_processed"
ERROR_DIR == "pdf_error"
\* cpu_count() of the modelled machine
NUM_WORKERS == 2

\* ---- strings are sequences of characters ---------------------------------
A_PDF == <<"a", ".", "p", "d", "f">>
A_PDF_UPPER == <<"a", ".", "P", "D", "F">>
A_TXT == <<"a", ".", "t", "x", "t">>
D_PDF == <<"d", ".", "p", "d", "f">>
\* names a file can be created under, and the name a sub-directory is created under
FileNames == {A_PDF, A_PDF_UPPER, A_TXT}
DirNames == {D_PDF}
Names == FileNames \cup DirNames

\* str.lower() on one character, then on a string
LowerChar(c) ==
    CASE c = "P" -> "p"
      [] c = "D" -> "d"
      [] c = "F" -> "f"
      [] c = "A" -> "a"
      [] OTHER -> c
Lower(s) == [i \in 1..Len(s) |-> LowerChar(s[i])]

\* str.endswith(suffix)
EndsWith(s, suffix) ==
    /\ Len(s) >= Len(suffix)
    /\ SubSeq(s, Len(s) - Len(suffix) + 1, Len(s)) = suffix

\* a path is <<directory, file name>>; os.path.join and os.path.basename
Join(dir, name) == <<dir, name>>
Basename(path) == path[2]
\* the characters of a path as event.src_path holds them
PathChars(path) == <<"/">> \o path[2]

\* os.path.splitext: split at the last dot that is not the first character
DotPositions(s) == {i \in 2..Len(s) : s[i] = "."}
LastDot(s) == CHOOSE i \in DotPositions(s) : \A j \in DotPositions(s) : j <= i
SplitExt(s) ==
    IF DotPositions(s) = {} THEN <<s, <<>>>>
    ELSE <<SubSeq(s, 1, LastDot(s) - 1), SubSeq(s, LastDot(s), Len(s))>>

\* f"{n:04d}": decimal digits, zero-padded to at least 4 characters
DigitChar(d) == <<"0", "1", "2", "3", "4", "5", "6", "7", "8", "9">>[d + 1]
RECURSIVE Decimal(_)
Decimal(n) == IF n < 10 THEN <<DigitChar(n)>> ELSE Decimal(n \div 10) \o <<DigitChar(n % 10)>>
RECURSIVE ZeroPad(_, _)
ZeroPad(s, width) == IF Len(s) >= width THEN s ELSE ZeroPad(<<"0">> \o s, width)
Format04d(n) == ZeroPad(Decimal(n), 4)

\* mutant of ImageFilename: the file is named after the document alone
ImageFilenameNoPage(filename, page_num) ==
    SplitExt(filename)[1] \o <<"_", "p", "a", "g", "e">> \o <<".", "p", "n", "g">>
\* mutant of ImageFilename: the 0-based page index is formatted as it is
ImageFilenameMut(filename, page_num) ==
    SplitExt(filename)[1] \o <<"_", "p", "a", "g", "e", "_">> \o Format04d(page_num)
        \o <<".", "p", "n", "g">>
\* cliapp.py:52-54: the image path of 0-based page page_num of file filename
ImageFilename(filename, page_num) ==
    SplitExt(filename)[1] \o <<"_", "p", "a", "g", "e", "_">> \o Format04d(page_num + 1)
        \o <<".", "p", "n", "g">>
ImagePath(output_folder, filename, page_num) ==
    Join(output_folder, ImageFilename(filename, page_num))

\* ---- the file system ------------------------------------------------------
\* The bytes of a document, as far as the program can tell them apart: openable
\* whether fitz.open parses them, pages the page count, fail the 1-based pages
\* whose render or encode raises.  Nothing observes the bytes of a file before
\* its first read, so they are fixed at that read (read = TRUE) and every
\* later read finds the same bytes.
NoBytes == [read |-> FALSE, openable |-> FALSE, pages |-> 0, fail |-> {}]
Unparsable == [read |-> TRUE, openable |-> FALSE, pages |-> 0, fail |-> {}]
ContentsUpTo(n) == {c \in [read : {TRUE}, openable : BOOLEAN, pages : 0..n,
                           fail : SUBSET (1..n)] :
                      /\ c.fail \subseteq 1..c.pages
                      /\ ~c.openable => c.pages = 0}
Contents == ContentsUpTo(MaxPages)
LiveContents == ContentsUpTo(MaxLivePages)
\* A directory entry: id identifies the created entry (0: no entry), is_dir
\* tells a sub-directory from a file, bytes its content, writing whether the
\* process that created the file still has it open and is writing to it.
NoFile == [id |-> 0, is_dir |-> FALSE, bytes |-> NoBytes, writing |-> FALSE]
\* The program never reads the processed and error folders: their entries are
\* kept by identity alone.
Archived(entry) == [NoFile EXCEPT !.id = entry.id, !.is_dir = entry.is_dir]
Ids == 1..MaxDrops
ArchiveDirs == {INPUT_DIR, PROCESSED_DIR, ERROR_DIR}

VARIABLES
    fs,         \* directory -> name -> entry, for the input, processed and error folders
    images,     \* the output folder: set of <<image file name, id of the file it was rendered from>>
    nDropped,   \* entries created in the input folder so far
    queue,      \* the observer's event queue
    mainPc,     \* position of the main thread
    obsThread,  \* state of the observer thread
    stopped,    \* the observer's stop flag
    cur,        \* id of the file the running or last on_created call handles (0: none yet)
    jstate,     \* id -> stage of the Job of that entry
    loc,        \* local variables of on_created and pdf_to_images_from_path
    task,       \* the pool's tasks, in submission order
    log,        \* log lines printed since the last "New PDF detected" line
    invoked,    \* id -> number of calls of pdf_to_images_from_path for that file
    nameOf      \* id -> the name the entry was created under

vars == <<fs, images, nDropped, queue, mainPc, obsThread, stopped, cur, jstate, loc, task, log, invoked,
          nameOf>>

ReadFile(path) == fs[path[1]][path[2]]
Exists(path) == ReadFile(path).id # 0

\* mutant of Move: the file is copied and the source is left in place
MoveMut(files, src, dst) ==
    [d \in ArchiveDirs |->
        [n \in Names |->
            IF d = dst[1] /\ n = dst[2] THEN Archived(files[src[1]][src[2]])
            ELSE files[d][n]]]
\* shutil.move(src, dst) within one file system: os.rename, which replaces dst
Move(files, src, dst) ==
    [d \in ArchiveDirs |->
        [n \in Names |->
            IF d = dst[1] /\ n = dst[2] THEN Archived(files[src[1]][src[2]])
            ELSE IF d = src[1] /\ n = src[2] THEN NoFile
            ELSE files[d][n]]]

\* img.save(image_path): creates or replaces the image file
SaveImage(out, image_path, id) ==
    {x \in out : x[1] # image_path} \cup {<<image_path, id>>}

Terminal == {"archived_processed", "archived_error"}
StageOf(id) == IF id \in Ids THEN jstate[id] ELSE "none"
HandlerAt(s) == obsThread = "running" /\ StageOf(cur) = s
HandlerIdle == obsThread = "running" /\ (cur = 0 \/ StageOf(cur) \in Terminal)

\* A creation event; id names the created entry the event reports.
\* The locals of the running call; completed lists the tasks of its pool.map
\* call in the order they ended (the order the pool received their results).
NoEvent == [src_path |-> <<>>, is_directory |-> FALSE, id |-> 0]
NoLocals == [event |-> NoEvent, pdf_path |-> <<>>, filename |-> <<>>, pdf_bytes |-> NoBytes,
             total_pages |-> 0,
             page_args |-> <<>>, results |-> <<>>, success_count |-> 0, fail_count |-> 0,
             success |-> FALSE, completed |-> <<>>]

Init ==
    /\ fs = [d \in ArchiveDirs |-> [n \in Names |-> NoFile]]
    /\ images = {}
    /\ nDropped = 0
    /\ queue = <<>>
    /\ mainPc = "starting"
    /\ obsThread = "unstarted"
    /\ stopped = FALSE
    /\ cur = 0
    /\ jstate = [i \in Ids |-> "none"]
    /\ loc = NoLocals
    /\ task = <<>>
    /\ log = <<>>
    /\ invoked = [i \in Ids |-> 0]
    /\ nameOf = [i \in Ids |-> <<>>]


\* ---- the environment: entries appear in the watched folder -----------------
\* A file or sub-directory is created in the input folder while the observer
\* watches it; the observer's emitter queues one creation event for it.  The
\* entry is complete when it appears.
Drop(name) ==
    /\ mainPc = "watching"
    /\ nDropped < MaxDrops
    /\ ~Exists(Join(INPUT_DIR, name))
    /\ nDropped' = nDropped + 1
    /\ fs' = [fs EXCEPT ![INPUT_DIR][name] =
                [id |-> nDropped + 1, is_dir |-> name \in DirNames, bytes |-> NoBytes,
                 writing |-> FALSE]]
    /\ queue' = Append(queue, [src_path |-> Join(INPUT_DIR, name),
                               is_directory |-> name \in DirNames, id |-> nDropped + 1])
    /\ jstate' = [jstate EXCEPT ![nDropped + 1] = "created"]
    /\ nameOf' = [nameOf EXCEPT ![nDropped + 1] = name]
    /\ UNCHANGED <<images, mainPc, obsThread, stopped, cur, loc, task, log, invoked>>

\* A file is created in the input folder by a process that goes on writing to
\* it: the creation event is queued when the file appears, before it is
\* complete.
DropOpen(name) ==
    /\ mainPc = "watching"
    /\ nDropped < MaxDrops
    /\ name \in FileNames
    /\ ~Exists(Join(INPUT_DIR, name))
    /\ nDropped' = nDropped + 1
    /\ fs' = [fs EXCEPT ![INPUT_DIR][name] =
                [id |-> nDropped + 1, is_dir |-> FALSE, bytes |-> NoBytes, writing |-> TRUE]]
    /\ queue' = Append(queue, [src_path |-> Join(INPUT_DIR, name),
                               is_directory |-> FALSE, id |-> nDropped + 1])
    /\ jstate' = [jstate EXCEPT ![nDropped + 1] = "created"]
    /\ nameOf' = [nameOf EXCEPT ![nDropped + 1] = name]
    /\ UNCHANGED <<images, mainPc, obsThread, stopped, cur, loc, task, log, invoked>>

\* The writing process writes its last byte and closes the file.  Nothing tells
\* the program when this happens.
WriterClose(name) ==
    /\ fs[INPUT_DIR][name].id # 0
    /\ fs[INPUT_DIR][name].writing
    /\ fs' = [fs EXCEPT ![INPUT_DIR][name].writing = FALSE]
    /\ UNCHANGED <<images, nDropped, queue, mainPc, obsThread, stopped, cur, jstate, loc, task,
                   log, invoked, nameOf>>

\* ---- the main thread (cliapp.py:152-176) ----------------------------------
\* observer.schedule and observer.start succeed: the observer thread runs
ObserverStart ==
    /\ mainPc = "starting"
    /\ mainPc' = "watching"
    /\ obsThread' = "running"
    /\ UNCHANGED <<fs, images, nDropped, queue, stopped, cur, jstate, loc, task, log, invoked,
                   nameOf>>

\* observer.start raises: nothing catches it and the process ends
ObserverStartFails ==
    /\ mainPc = "starting"
    /\ mainPc' = "crashed"
    /\ UNCHANGED <<fs, images, nDropped, queue, obsThread, stopped, cur, jstate, loc, task,
                   log, invoked, nameOf>>

\* KeyboardInterrupt in the sleep loop: the except block calls observer.stop()
Interrupt ==
    /\ mainPc = "watching"
    /\ stopped' = TRUE
    /\ mainPc' = "joining"
    /\ UNCHANGED <<fs, images, nDropped, queue, obsThread, cur, jstate, loc, task, log, invoked,
                   nameOf>>

\* observer.join() returns once the observer thread has ended; the script exits
Join_ ==
    /\ mainPc = "joining"
    /\ obsThread = "terminated"
    /\ mainPc' = "exited"
    /\ UNCHANGED <<fs, images, nDropped, queue, obsThread, stopped, cur, jstate, loc, task,
                   log, invoked, nameOf>>

\* ---- the observer thread ---------------------------------------------------
\* The dispatch loop ends when the stop flag is set and no handler call runs.
ObserverExit ==
    /\ HandlerIdle
    /\ stopped
    /\ obsThread' = "terminated"
    /\ UNCHANGED <<fs, images, nDropped, queue, mainPc, stopped, cur, jstate, loc, task, log,
                   invoked, nameOf>>

\* mutant of Qualifies: the event's is_directory flag is not looked at
QualifiesMut(event) ==
    EndsWith(Lower(PathChars(event.src_path)), <<".", "p", "d", "f">>)
\* cliapp.py:131: the filter of on_created
Qualifies(event) ==
    /\ ~event.is_directory
    /\ EndsWith(Lower(PathChars(event.src_path)), <<".", "p", "d", "f">>)

Line(level, msg, n) == [level |-> level, msg |-> msg, n |-> n]

\* mutant of DispatchPdf: events are still delivered after observer.stop()
DispatchPdfMut ==
    /\ HandlerIdle
    /\ queue # <<>>
    /\ Qualifies(Head(queue))
    /\ queue' = Tail(queue)
    /\ cur' = Head(queue).id
    /\ jstate' = [jstate EXCEPT ![Head(queue).id] = "discovered"]
    /\ loc' = [NoLocals EXCEPT !.event = Head(queue)]
    /\ task' = <<>>
    /\ log' = <<Line("INFO", "New PDF detected", 0)>>
    /\ UNCHANGED <<fs, images, nDropped, mainPc, obsThread, stopped, invoked, nameOf>>
\* mutant of DispatchPdf: on_created is called for the next event while the
\* call for an earlier event has not returned
DispatchPdfConcurrent ==
    /\ obsThread = "running"
    /\ ~stopped
    /\ queue # <<>>
    /\ Qualifies(Head(queue))
    /\ queue' = Tail(queue)
    /\ cur' = Head(queue).id
    /\ jstate' = [jstate EXCEPT ![Head(queue).id] = "discovered"]
    /\ loc' = [NoLocals EXCEPT !.event = Head(queue)]
    /\ task' = <<>>
    /\ log' = <<Line("INFO", "New PDF detected", 0)>>
    /\ UNCHANGED <<fs, images, nDropped, mainPc, obsThread, stopped, invoked, nameOf>>
\* on_created is called with the next queued event and the filter passes
\* (cliapp.py:130-132)
DispatchPdf ==
    /\ HandlerIdle
    /\ ~stopped
    /\ queue # <<>>
    /\ Qualifies(Head(queue))
    /\ queue' = Tail(queue)
    /\ cur' = Head(queue).id
    /\ jstate' = [jstate EXCEPT ![Head(queue).id] = "discovered"]
    /\ loc' = [NoLocals EXCEPT !.event = Head(queue)]
    /\ task' = <<>>
    /\ log' = <<Line("INFO", "New PDF detected", 0)>>
    /\ UNCHANGED <<fs, images, nDropped, mainPc, obsThread, stopped, invoked, nameOf>>

\* on_created is called with the next queued event and returns at the filter
DispatchOther ==
    /\ HandlerIdle
    /\ ~stopped
    /\ queue # <<>>
    /\ ~Qualifies(Head(queue))
    /\ queue' = Tail(queue)
    /\ jstate' = [jstate EXCEPT ![Head(queue).id] = "ignored"]
    /\ UNCHANGED <<fs, images, nDropped, mainPc, obsThread, stopped, cur, loc, task, log,
                   invoked, nameOf>>

\* mutant of Settle: the pipeline is entered a second time for the same file
SettleMut ==
    /\ HandlerAt("discovered")
    /\ loc' = [loc EXCEPT !.pdf_path = loc.event.src_path,
                          !.filename = Basename(loc.event.src_path)]
    /\ invoked' = [invoked EXCEPT ![cur] = @ + 2]
    /\ jstate' = [jstate EXCEPT ![cur] = "counting"]
    /\ log' = Append(log, Line("STEP", "STARTING CONVERSION", 0))
    /\ UNCHANGED <<fs, images, nDropped, queue, mainPc, obsThread, stopped, cur, task, nameOf>>
\* time.sleep(2) returns; on_created calls pdf_to_images_from_path, which logs
\* its start (cliapp.py:135-140, 71-77)
Settle ==
    /\ HandlerAt("discovered")
    /\ loc' = [loc EXCEPT !.pdf_path = loc.event.src_path,
                          !.filename = Basename(loc.event.src_path)]
    /\ invoked' = [invoked EXCEPT ![cur] = @ + 1]
    /\ jstate' = [jstate EXCEPT ![cur] = "counting"]
    /\ log' = Append(log, Line("STEP", "STARTING CONVERSION", 0))
    /\ UNCHANGED <<fs, images, nDropped, queue, mainPc, obsThread, stopped, cur, task, nameOf>>

\* mutant of PageArgs: the page indices run from 1 to total_pages
PageArgsMut(pdf_path, total_pages, output_folder, filename) ==
    [i \in 1..total_pages |-> <<pdf_path, i, output_folder, filename>>]
\* cliapp.py:92: one argument tuple per page index in range(total_pages)
PageArgs(pdf_path, total_pages, output_folder, filename) ==
    [i \in 1..total_pages |-> <<pdf_path, i - 1, output_folder, filename>>]

\* mutant of OpenRaises: unparsable bytes open as an empty document
OpenRaisesMut(entry) == entry.id = 0 \/ entry.is_dir
\* open(pdf_path, 'rb').read() and fitz.open: whether they raise
OpenRaises(entry) == entry.id = 0 \/ entry.is_dir \/ ~entry.bytes.openable

\* mutant of Count: the exception of a failed open is not caught, leaves
\* on_created and ends the observer thread
CountMut(c) ==
    /\ HandlerAt("counting")
    /\ LET entry == ReadFile(loc.pdf_path)
           doc == IF entry.id = 0 \/ entry.is_dir \/ entry.bytes.read THEN entry
                  ELSE [entry EXCEPT !.bytes = c]
       IN
        /\ entry.bytes.read => c = entry.bytes
        /\ (entry.id = 0 \/ entry.is_dir) => c = Unparsable
        /\ fs' = IF entry.id = 0 THEN fs
                 ELSE [fs EXCEPT ![loc.pdf_path[1]][loc.pdf_path[2]] = doc]
        /\ IF OpenRaises(doc)
           THEN /\ obsThread' = "terminated"
                /\ UNCHANGED <<loc, jstate, log>>
           ELSE /\ loc' = [loc EXCEPT !.pdf_bytes = doc.bytes,
                                      !.total_pages = doc.bytes.pages,
                                      !.page_args = PageArgs(loc.pdf_path, doc.bytes.pages,
                                                             OUTPUT_DIR, loc.filename)]
                /\ jstate' = [jstate EXCEPT ![cur] = "scheduled"]
                /\ log' = Append(log, Line("SUCCESS", "PDF opened", doc.bytes.pages))
                /\ obsThread' = obsThread
    /\ UNCHANGED <<images, nDropped, queue, mainPc, stopped, cur, task, invoked, nameOf>>
\* cliapp.py:79-92, 118-121: read and open the document and count its pages;
\* any exception is caught, logged, and the function returns False.  This is
\* the first read of the file: it finds the bytes c.
Count(c) ==
    /\ HandlerAt("counting")
    /\ LET entry == ReadFile(loc.pdf_path)
           doc == IF entry.id = 0 \/ entry.is_dir \/ entry.bytes.read THEN entry
                  ELSE [entry EXCEPT !.bytes = c]
       IN
        /\ entry.bytes.read => c = entry.bytes
        /\ (entry.id = 0 \/ entry.is_dir) => c = Unparsable
        /\ fs' = IF entry.id = 0 THEN fs
                 ELSE [fs EXCEPT ![loc.pdf_path[1]][loc.pdf_path[2]] = doc]
        /\ IF OpenRaises(doc)
           THEN /\ loc' = [loc EXCEPT !.pdf_bytes = IF entry.id = 0 \/ entry.is_dir
                                                    THEN NoBytes ELSE doc.bytes,
                                      !.success = FALSE]
                /\ jstate' = [jstate EXCEPT ![cur] = "failed_early"]
                /\ log' = Append(log, Line("ERROR", "PDF CONVERSION FAILED", 0))
           ELSE /\ loc' = [loc EXCEPT !.pdf_bytes = doc.bytes,
                                      !.total_pages = doc.bytes.pages,
                                      !.page_args = PageArgs(loc.pdf_path, doc.bytes.pages,
                                                             OUTPUT_DIR, loc.filename)]
                /\ jstate' = [jstate EXCEPT ![cur] = "scheduled"]
                /\ log' = Append(log, Line("SUCCESS", "PDF opened", doc.bytes.pages))
    /\ UNCHANGED <<images, nDropped, queue, mainPc, obsThread, stopped, cur, task, invoked, nameOf>>

NoResult == <<FALSE, 0, <<>>>>
ErrorText == <<"e", "r", "r">>

\* mutant of Submit: only the first task is handed to the pool up front
SubmitFirstOnly ==
    /\ HandlerAt("scheduled")
    /\ task' = [i \in 1..(IF Len(loc.page_args) = 0 THEN 0 ELSE 1) |->
                    [st |-> "pending", bytes |-> NoFile, res |-> NoResult]]
    /\ jstate' = [jstate EXCEPT ![cur] = "rendering"]
    /\ UNCHANGED <<fs, images, nDropped, queue, mainPc, obsThread, stopped, cur, loc, log, invoked,
                   nameOf>>
\* cliapp.py:95-96: the pool is created and pool.map submits every task
Submit ==
    /\ HandlerAt("scheduled")
    /\ task' = [i \in 1..Len(loc.page_args) |-> [st |-> "pending", bytes |-> NoFile, res |-> NoResult]]
    /\ jstate' = [jstate EXCEPT ![cur] = "rendering"]
    /\ UNCHANGED <<fs, images, nDropped, queue, mainPc, obsThread, stopped, cur, loc, log, invoked,
                   nameOf>>

Running == {i \in 1..Len(task) : task[i].st = "running"}

\* mutant of TaskStart: a failing task takes the pending tasks of the batch
\* down with it
TaskStartMut(i, stage) ==
    /\ HandlerAt("rendering")
    /\ i \in 1..Len(task)
    /\ task[i].st = "pending"
    /\ Cardinality(Running) < NUM_WORKERS
    /\ LET args == loc.page_args[i]
           doc == ReadFile(args[1])
       IN
        IF \/ OpenRaises(doc)
           \/ args[2] >= doc.bytes.pages
           \/ (args[2] + 1 \in doc.bytes.fail /\ stage = "render")
        THEN /\ task' = [j \in 1..Len(task) |->
                            IF task[j].st = "pending"
                            THEN [st |-> "done", bytes |-> NoFile,
                                  res |-> <<FALSE, loc.page_args[j][2] + 1, ErrorText>>]
                            ELSE task[j]]
             /\ loc' = [loc EXCEPT !.completed = Append(@, i)]
        ELSE /\ task' = [task EXCEPT ![i] = [st |-> "running", bytes |-> doc, res |-> NoResult]]
             /\ loc' = loc
    /\ UNCHANGED <<fs, images, nDropped, queue, mainPc, obsThread, stopped, cur, jstate,
                   log, invoked, nameOf>>
\* cliapp.py:40-50, 62-66: a free worker takes task i, reads the file, opens it
\* and renders the page; an exception ends the task with a failed result.  A
\* page of the document's fail set raises either here or when it is saved.
TaskStart(i, stage) ==
    /\ HandlerAt("rendering")
    /\ i \in 1..Len(task)
    /\ task[i].st = "pending"
    /\ Cardinality(Running) < NUM_WORKERS
    /\ LET args == loc.page_args[i]
           doc == ReadFile(args[1])
       IN
        IF \/ OpenRaises(doc)
           \/ args[2] >= doc.bytes.pages
           \/ (args[2] + 1 \in doc.bytes.fail /\ stage = "render")
        THEN /\ task' = [task EXCEPT ![i] = [st |-> "done", bytes |-> NoFile,
                                             res |-> <<FALSE, args[2] + 1, ErrorText>>]]
             /\ loc' = [loc EXCEPT !.completed = Append(@, i)]
        ELSE /\ task' = [task EXCEPT ![i] = [st |-> "running", bytes |-> doc, res |-> NoResult]]
             /\ loc' = loc
    /\ UNCHANGED <<fs, images, nDropped, queue, mainPc, obsThread, stopped, cur, jstate,
                   log, invoked, nameOf>>

\* cliapp.py:52-66: the worker derives the image path and saves the image
TaskFinish(i) ==
    /\ HandlerAt("rendering")
    /\ i \in 1..Len(task)
    /\ task[i].st = "running"
    /\ LET args == loc.page_args[i]
           image_path == ImagePath(args[3], args[4], args[2])
       IN
        IF args[2] + 1 \in task[i].bytes.bytes.fail
        THEN /\ task' = [task EXCEPT ![i] = [st |-> "done", bytes |-> NoFile,
                                             res |-> <<FALSE, args[2] + 1, ErrorText>>]]
             /\ images' = images
        ELSE /\ task' = [task EXCEPT ![i] = [st |-> "done", bytes |-> NoFile,
                                             res |-> <<TRUE, args[2] + 1, image_path>>]]
             /\ images' = SaveImage(images, image_path[2], task[i].bytes.id)
    /\ loc' = [loc EXCEPT !.completed = Append(@, i)]
    /\ UNCHANGED <<fs, nDropped, queue, mainPc, obsThread, stopped, cur, jstate, log, invoked,
                   nameOf>>

\* cliapp.py:99-107: the counting loop over the results, in list order
RECURSIVE SuccessCount(_)
SuccessCount(results) ==
    IF results = <<>> THEN 0
    ELSE (IF Head(results)[1] THEN 1 ELSE 0) + SuccessCount(Tail(results))
\* mutant of FailCount: the counter is set to 1 on a failure, not incremented
FailCountMut(results) ==
    IF \E i \in 1..Len(results) : ~results[i][1] THEN 1 ELSE 0
RECURSIVE FailCount(_)
FailCount(results) ==
    IF results = <<>> THEN 0
    ELSE (IF Head(results)[1] THEN 0 ELSE 1) + FailCount(Tail(results))
\* cliapp.py:103, 106: one log line per result
PageLines(results) ==
    [i \in 1..Len(results) |->
        IF results[i][1] THEN Line("SUCCESS", "Saved Page", results[i][2])
        ELSE Line("ERROR", "Failed Page", results[i][2])]

\* mutant of OverallSuccess: a Job with successes counts as a success
OverallSuccessMut(fail_count) == fail_count <= 1
\* cliapp.py:116: the value pdf_to_images_from_path returns after the loop
OverallSuccess(fail_count) == fail_count = 0

\* mutant of Aggregate: the results are taken in the order the tasks completed
AggregateMut ==
    /\ HandlerAt("rendering")
    /\ \A i \in 1..Len(task) : task[i].st = "done"
    /\ LET results == [k \in 1..Len(task) |-> task[loc.completed[k]].res] IN
        /\ loc' = [loc EXCEPT !.results = results,
                              !.success_count = SuccessCount(results),
                              !.fail_count = FailCount(results),
                              !.success = OverallSuccess(FailCount(results))]
        /\ log' = log \o PageLines(results)
                      \o <<Line("SUCCESS", "CONVERSION COMPLETE", 0)>>
    /\ task' = <<>>
    /\ jstate' = [jstate EXCEPT ![cur] = "aggregated"]
    /\ UNCHANGED <<fs, images, nDropped, queue, mainPc, obsThread, stopped, cur, invoked, nameOf>>
\* mutant of Aggregate: the results that exist are consumed as soon as one task
\* is done, while the other tasks are still pending or running
AggregateEarly ==
    /\ HandlerAt("rendering")
    /\ \E i \in 1..Len(task) : task[i].st = "done"
    /\ LET results == [i \in 1..Len(task) |-> task[i].res] IN
        /\ loc' = [loc EXCEPT !.results = results,
                              !.success_count = SuccessCount(results),
                              !.fail_count = FailCount(results),
                              !.success = OverallSuccess(FailCount(results))]
        /\ log' = log \o PageLines(results)
                      \o <<Line("SUCCESS", "CONVERSION COMPLETE", 0)>>
    /\ task' = task
    /\ jstate' = [jstate EXCEPT ![cur] = "aggregated"]
    /\ UNCHANGED <<fs, images, nDropped, queue, mainPc, obsThread, stopped, cur, invoked, nameOf>>
\* cliapp.py:96-116: pool.map returns the results in submission order once
\* every task is done; they are counted and logged and the flag is returned
Aggregate ==
    /\ HandlerAt("rendering")
    /\ \A i \in 1..Len(task) : task[i].st = "done"
    /\ LET results == [i \in 1..Len(task) |-> task[i].res] IN
        /\ loc' = [loc EXCEPT !.results = results,
                              !.success_count = SuccessCount(results),
                              !.fail_count = FailCount(results),
                              !.success = OverallSuccess(FailCount(results))]
        /\ log' = log \o PageLines(results)
                      \o <<Line("SUCCESS", "CONVERSION COMPLETE", 0)>>
    /\ task' = <<>>
    /\ jstate' = [jstate EXCEPT ![cur] = "aggregated"]
    /\ UNCHANGED <<fs, images, nDropped, queue, mainPc, obsThread, stopped, cur, invoked, nameOf>>

\* cliapp.py:142-148: the folder the original file is moved to
DestDir(success) == IF success THEN PROCESSED_DIR ELSE ERROR_DIR

\* mutant of Archive: only a Job that reached the counting loop is archived
ArchiveMut ==
    /\ HandlerAt("aggregated")
    /\ LET dest_path == Join(DestDir(loc.success), loc.filename) IN
        /\ fs' = Move(fs, loc.pdf_path, dest_path)
        /\ jstate' = [jstate EXCEPT ![cur] =
                         IF dest_path[1] = PROCESSED_DIR THEN "archived_processed"
                         ELSE "archived_error"]
        /\ log' = Append(log, Line("INFO", "Moved", 0))
    /\ UNCHANGED <<images, nDropped, queue, mainPc, obsThread, stopped, cur, loc, task,
                   invoked, nameOf>>
\* mutant of Archive: a failed Job is not moved but handled again from the start
ArchiveRetries ==
    /\ HandlerAt("aggregated") \/ HandlerAt("failed_early")
    /\ LET dest_path == Join(DestDir(loc.success), loc.filename) IN
        IF loc.success
        THEN /\ fs' = Move(fs, loc.pdf_path, dest_path)
             /\ jstate' = [jstate EXCEPT ![cur] = "archived_processed"]
             /\ log' = Append(log, Line("SUCCESS", "Moved to processed folder", 0))
             /\ loc' = loc
        ELSE /\ jstate' = [jstate EXCEPT ![cur] = "discovered"]
             /\ loc' = [NoLocals EXCEPT !.event = loc.event]
             /\ UNCHANGED <<fs, log>>
    /\ UNCHANGED <<images, nDropped, queue, mainPc, obsThread, stopped, cur, task, invoked,
                   nameOf>>
\* cliapp.py:142-149: shutil.move to the processed or the error folder; a
\* missing source raises out of on_created and ends the observer thread
Archive ==
    /\ HandlerAt("aggregated") \/ HandlerAt("failed_early")
    /\ LET dest_path == Join(DestDir(loc.success), loc.filename) IN
        IF Exists(loc.pdf_path)
        THEN /\ fs' = Move(fs, loc.pdf_path, dest_path)
             /\ jstate' = [jstate EXCEPT ![cur] =
                              IF dest_path[1] = PROCESSED_DIR THEN "archived_processed"
                              ELSE "archived_error"]
             /\ log' = Append(log, IF loc.success
                                   THEN Line("SUCCESS", "Moved to processed folder", 0)
                                   ELSE Line("ERROR", "Moved to error folder", 0))
             /\ obsThread' = obsThread
        ELSE /\ obsThread' = "terminated"
             /\ UNCHANGED <<fs, jstate, log>>
    /\ UNCHANGED <<images, nDropped, queue, mainPc, stopped, cur, loc, task, invoked, nameOf>>

\* The steps of the observer thread when the documents are those of contents,
\* of the pool's worker processes, and of the environment and the main thread.
ObserverStep(contents) ==
    \/ DispatchPdf
    \/ DispatchOther
    \/ Settle
    \/ \E c \in contents : Count(c)
    \/ Submit
    \/ Aggregate
    \/ Archive
    \/ ObserverExit
WorkerStep ==
    \/ \E i \in 1..MaxPages, stage \in {"render", "encode"} : TaskStart(i, stage)
    \/ \E i \in 1..MaxPages : TaskFinish(i)
MainStep ==
    \/ ObserverStart
    \/ ObserverStartFails
    \/ Interrupt
    \/ Join_

Next ==
    \/ \E name \in Names : Drop(name)
    \/ MainStep
    \/ ObserverStep(Contents)
    \/ WorkerStep

Spec == Init /\ [][Next]_vars

\* The same program with the documents of at most MaxLivePages pages.
LiveNext ==
    \/ \E name \in Names : Drop(name)
    \/ MainStep
    \/ ObserverStep(LiveContents)
    \/ WorkerStep

\* The operating system keeps scheduling the observer thread and the worker
\* processes, every page task ends, and the main thread's join returns once the
\* observer thread has ended.
Fairness ==
    /\ WF_vars(ObserverStep(LiveContents))
    /\ WF_vars(WorkerStep)
    /\ WF_vars(Join_)

FairSpec == Init /\ [][LiveNext]_vars /\ Fairness

\* The same program in an environment where a file may also be detected while
\* its writer is still at work.
WriterNext ==
    \/ Next
    \/ \E name \in FileNames : DropOpen(name)
    \/ \E name \in FileNames : WriterClose(name)

WriterSpec == Init /\ [][WriterNext]_vars

\* ---- vocabulary of the properties ------------------------------------------
InDir(id, dir) == \E n \in Names : fs[dir][n].id = id
Places(id) == {d \in ArchiveDirs : InDir(id, d)}
\* the image files in the output folder that were rendered from file id
ImagesOf(id) == {x[1] : x \in {y \in images : y[2] = id}}
\* the on_created call for file cur has returned
Handled == cur # 0 /\ StageOf(cur) \in Terminal
\* the pipeline read the bytes of the current file, and they parsed or did not
Opened == cur # 0 /\ loc.pdf_bytes.read /\ loc.pdf_bytes.openable
OpenFailed == cur # 0 /\ loc.pdf_bytes.read /\ ~loc.pdf_bytes.openable
\* the counting loop of the current Job has run
Counted == Opened /\ StageOf(cur) \in {"aggregated"} \cup Terminal
PageLines_(lines) == {i \in 1..Len(lines) : lines[i].msg \in {"Saved Page", "Failed Page"}}
\* "<base>_page_000<p>.png" for the base name "a" and 1 <= p <= 9, written out
ExpectedImage(p) ==
    <<"a", "_", "p", "a", "g", "e", "_", "0", "0", "0",
      <<"1", "2", "3", "4", "5", "6", "7", "8", "9">>[p], ".", "p", "n", "g">>

\* ---- C1 ---------------------------------------------------------------------
\* C1: once the counting loop has run, the returned flag is true iff the fail
\* count is 0; and a handled Job whose document has a failing page has its file
\* in the error folder and in no other, whatever the number of pages that
\* succeeded.
C1_PartialFailureIsFailure ==
    /\ Counted => (loc.success <=> (loc.fail_count = 0))
    /\ (Handled /\ Opened /\ loc.pdf_bytes.fail # {}) =>
            /\ Places(cur) = {ERROR_DIR}
            /\ loc.fail_count >= 1
            /\ ~loc.success
C1_Witness ==
    /\ Handled /\ Opened
    /\ loc.pdf_bytes.fail # {}
    /\ loc.success_count >= 1
    /\ InDir(cur, ERROR_DIR)

\* ---- C2 ---------------------------------------------------------------------
\* C2: a handled Job whose document has N pages that all render and encode has
\* written exactly the N images a_page_0001.png .. a_page_000N.png to the output
\* folder, and its file is in the processed folder.
C2_AllPagesValid ==
    (Handled /\ Opened /\ loc.pdf_bytes.fail = {}) =>
        /\ ImagesOf(cur) = {ExpectedImage(p) : p \in 1..loc.pdf_bytes.pages}
        /\ Cardinality(ImagesOf(cur)) = loc.pdf_bytes.pages
        /\ Places(cur) = {PROCESSED_DIR}
C2_Witness ==
    /\ Handled /\ Opened
    /\ loc.pdf_bytes.fail = {}
    /\ loc.pdf_bytes.pages = 2
    /\ ImagesOf(cur) = {ExpectedImage(1), ExpectedImage(2)}
    /\ InDir(cur, PROCESSED_DIR)

\* ---- C3 ---------------------------------------------------------------------
\* C3: from the failed open on, a Job whose document does not parse has no page
\* task built or submitted, no result, no per-page log line and no image, it is
\* on the early-failure path, and once handled its file is in the error folder.
C3_OpenFailure ==
    OpenFailed =>
        /\ loc.page_args = <<>>
        /\ task = <<>>
        /\ loc.results = <<>>
        /\ PageLines_(log) = {}
        /\ ImagesOf(cur) = {}
        /\ StageOf(cur) \in {"failed_early", "archived_error"}
        /\ Handled => Places(cur) = {ERROR_DIR}
C3_Witness ==
    /\ OpenFailed
    /\ Handled
    /\ InDir(cur, ERROR_DIR)
    /\ log[Len(log)].msg = "Moved to error folder"

\* ---- C4 ---------------------------------------------------------------------
\* C4: no file is in the processed and the error folder at once, a file archived
\* as processed is not in the error folder nor one archived as error in the
\* processed folder, and a file whose handling has ended is not in the input
\* folder.
C4_ArchivalExclusive ==
    \A id \in Ids :
        /\ ~(InDir(id, PROCESSED_DIR) /\ InDir(id, ERROR_DIR))
        /\ StageOf(id) = "archived_processed" => ~InDir(id, ERROR_DIR)
        /\ StageOf(id) = "archived_error" => ~InDir(id, PROCESSED_DIR)
        /\ StageOf(id) \in Terminal => ~InDir(id, INPUT_DIR)
C4_Witness ==
    \E i, j \in Ids :
        /\ StageOf(i) = "archived_processed" /\ InDir(i, PROCESSED_DIR)
        /\ StageOf(j) = "archived_error" /\ InDir(j, ERROR_DIR)
        /\ nameOf[i] = nameOf[j]

\* ---- C5 ---------------------------------------------------------------------
InProgress == {"discovered", "counting", "scheduled", "rendering", "aggregated", "failed_early"}
ArchivedOnce(id) ==
    \/ StageOf(id) = "archived_processed" /\ Places(id) = {PROCESSED_DIR}
    \/ StageOf(id) = "archived_error" /\ Places(id) = {ERROR_DIR}
\* C5: with every handler step and page task running to its end, a Job whose
\* handling has begun leads to its file being archived in exactly one of the
\* processed and error folders and in no other place, and a Job archived one way
\* never becomes archived the other way nor pending again.
C5_EventuallyArchivedOnce ==
    /\ \A id \in Ids : (StageOf(id) \in InProgress) ~> ArchivedOnce(id)
    /\ [][\A id \in Ids : StageOf(id) \in Terminal => StageOf(id)' = StageOf(id)]_vars
C5_Witness ==
    \E id \in Ids :
        /\ ArchivedOnce(id)
        /\ stopped
        /\ cur = id
        /\ loc.results # <<>>

\* ---- C6 ---------------------------------------------------------------------
Entered == {"counting", "scheduled", "rendering", "aggregated", "failed_early"} \cup Terminal
\* C6: pdf_to_images_from_path is never called twice for a file; it has been
\* called exactly once for every file whose qualifying event on_created has
\* taken past the settle delay, and not at all for any other entry.
C6_InvokedOncePerDetectedFile ==
    \A id \in Ids :
        /\ invoked[id] <= 1
        /\ StageOf(id) \in Entered => invoked[id] = 1
        /\ StageOf(id) \notin Entered => invoked[id] = 0
C6_Witness ==
    \E i, j \in Ids :
        /\ i # j
        /\ StageOf(i) \in Terminal /\ invoked[i] = 1
        /\ StageOf(j) \in Terminal /\ invoked[j] = 1

\* ---- C7 ---------------------------------------------------------------------
\* C7: the script exits only after the interrupt's observer.stop(), it ends
\* otherwise only when the observer never started, the observer thread ends only
\* after the stop, and with the handler kept running every queued event is
\* taken up by on_created unless the observer is stopped, whatever the outcome
\* of the Jobs before it.
C7_JobFailureDoesNotEndDaemon ==
    /\ [](mainPc = "exited" => stopped)
    /\ [](mainPc = "crashed" => (obsThread = "unstarted" /\ nDropped = 0))
    /\ [](obsThread = "terminated" => stopped)
    /\ \A id \in Ids : (StageOf(id) = "created") ~> (StageOf(id) # "created" \/ stopped)
C7_Witness ==
    \E i, j \in Ids :
        /\ i < j
        /\ StageOf(i) = "archived_error"
        /\ StageOf(j) \in Terminal
        /\ mainPc = "watching"
        /\ obsThread = "running"

\* ---- C8 ---------------------------------------------------------------------
\* C8: once the counting loop of a Job of N pages has run, with F the pages of
\* the document that fail, the images written from the file are exactly those of
\* the pages of 1..N outside F, fail_count is |F| and success_count is N - |F|;
\* this still holds after the file is archived, and then for non-empty F the
\* file is in the error folder.
C8_PartialResults ==
    Counted =>
        LET N == loc.pdf_bytes.pages
            F == loc.pdf_bytes.fail
        IN
            /\ loc.total_pages = N
            /\ ImagesOf(cur) = {ExpectedImage(p) : p \in (1..N) \ F}
            /\ loc.fail_count = Cardinality(F)
            /\ loc.success_count = N - Cardinality(F)
            /\ (Handled /\ F # {}) => Places(cur) = {ERROR_DIR}
C8_Witness ==
    /\ Counted /\ Handled
    /\ loc.pdf_bytes.pages = 2
    /\ loc.pdf_bytes.fail = {2}
    /\ ImagesOf(cur) = {ExpectedImage(1)}
    /\ loc.fail_count = 1
    /\ Places(cur) = {ERROR_DIR}

\* ---- C9 ---------------------------------------------------------------------
\* C9 as claimed: every created entry is in exactly one of the input, processed
\* and error folders in every reachable state.
C9_ExactlyOnePlace ==
    \A id \in Ids : id <= nDropped => Cardinality(Places(id)) = 1
\* a later file created under the same name was archived to the same folder
Replaced(id) ==
    /\ StageOf(id) \in Terminal
    /\ \E j \in Ids : j > id /\ nameOf[j] = nameOf[id] /\ StageOf(j) = StageOf(id)
\* C9 as amended: every created entry is in at most one of the three folders in
\* every reachable state, and it is in none of them only after a later file of
\* the same name was archived to the folder it was in, replacing it.
C9_OnePlaceUnlessReplaced ==
    \A id \in Ids : id <= nDropped =>
        /\ Cardinality(Places(id)) <= 1
        /\ Places(id) = {} => Replaced(id)
C9_Witness ==
    \E id \in Ids :
        /\ id <= nDropped
        /\ Places(id) = {}
        /\ Replaced(id)

C11_ResultsInPageOrder ==
    /\ HandlerAt("rendering") =>
            /\ Len(task) = Len(loc.page_args)
            /\ \A i \in 1..Len(task) :
                    task[i].st = "done" => task[i].res[2] = loc.page_args[i][2] + 1
    /\ Counted =>
            /\ Len(loc.results) = Len(loc.page_args)
            /\ Len(loc.completed) = Len(loc.page_args)
            /\ {loc.completed[k] : k \in 1..Len(loc.completed)} = 1..Len(loc.page_args)
            /\ \A i \in 1..Len(loc.results) :
                    /\ loc.results[i][2] = i
                    /\ loc.results[i][2] = loc.page_args[i][2] + 1
C11_Witness ==
    /\ Counted
    /\ loc.completed = <<2, 1>>
    /\ Len(loc.results) = 2
    /\ loc.results[1][2] = 1
    /\ loc.results[2][2] = 2

\* ---- C12 --------------------------------------------------------------------
\* a step in which task i ends with a failed result
FailsIn(i) ==
    /\ HandlerAt("rendering")
    /\ i \in 1..Len(task)
    /\ task[i].st # "done"
    /\ Len(task') = Len(task)
    /\ task'[i].st = "done"
    /\ ~task'[i].res[1]
\* C12: the step in which a page task fails leaves every other task of the
\* batch, the Job's stage, the observer thread and the folders as they were; the
\* outcome of every task is decided by its own page alone (it fails iff its page
\* is one whose render or encode raises), a failed task's result is the tuple
\* (False, page number, error text), and a Job whose document opened never
\* takes the early-failure path, whatever its page tasks do.
C12_PageFailuresIsolated ==
    /\ [][\A i \in 1..MaxPages : FailsIn(i) =>
            /\ \A j \in (1..Len(task)) \ {i} : task'[j] = task[j]
            /\ task'[i].res = <<FALSE, loc.page_args[i][2] + 1, ErrorText>>
            /\ UNCHANGED <<fs, images, jstate, obsThread, cur, queue>>]_vars
    /\ [](HandlerAt("rendering") =>
            \A i \in 1..Len(task) :
                task[i].st = "done" => (task[i].res[1] <=> i \notin loc.pdf_bytes.fail))
    /\ [](Counted =>
            \A i \in 1..Len(loc.results) :
                /\ loc.results[i][1] <=> i \notin loc.pdf_bytes.fail
                /\ ~loc.results[i][1] => loc.results[i] = <<FALSE, i, ErrorText>>)
    /\ [](Opened => StageOf(cur) # "failed_early")
C12_Witness ==
    /\ Counted
    /\ loc.pdf_bytes.fail = {1}
    /\ loc.completed = <<1, 2>>
    /\ loc.results[1] = <<FALSE, 1, ErrorText>>
    /\ loc.results[2][1]
    /\ ImagesOf(cur) = {ExpectedImage(2)}

\* ---- C13 --------------------------------------------------------------------
\* the tasks of the batch that have no result yet
Unfinished == {i \in 1..Len(task) : task[i].st # "done"}
\* C13: while a task of the batch is pending or running the Job is in the
\* rendering stage, no result has been consumed, no per-page line is logged and
\* the source file is still in the input folder; the step that leaves the
\* rendering stage is taken only with every task done; and the step in which a
\* worker reads the source file finds the Job's own file in the input folder.
C13_PoolCallBlocks ==
    /\ [](Unfinished # {} =>
            /\ StageOf(cur) = "rendering"
            /\ loc.results = <<>>
            /\ PageLines_(log) = {}
            /\ InDir(cur, INPUT_DIR)
            /\ Places(cur) = {INPUT_DIR})
    /\ [][(StageOf(cur) = "rendering" /\ StageOf(cur)' # "rendering") => Unfinished = {}]_vars
    /\ [][\A i \in 1..MaxPages :
            (i \in 1..Len(task) /\ task[i].st = "pending" /\ Len(task') = Len(task)
                /\ task'[i].st # "pending") =>
                    /\ ReadFile(loc.page_args[i][1]).id = cur
                    /\ loc.page_args[i][1][1] = INPUT_DIR
                    /\ task'[i].st = "running" => task'[i].bytes.id = cur]_vars
    /\ [](\A i \in 1..Len(task) : task[i].st = "running" => task[i].bytes.id = cur)
C13_Witness ==
    /\ HandlerAt("rendering")
    /\ Len(task) = 2
    /\ task[1].st = "done"
    /\ task[2].st = "running"
    /\ loc.results = <<>>
    /\ InDir(cur, INPUT_DIR)

\* ---- C14 --------------------------------------------------------------------
\* the Jobs whose handling has begun and has not ended
JobsInProgress == {id \in Ids : StageOf(id) \in InProgress}
\* the entries whose creation event waits in the observer's queue
Queued == {queue[k].id : k \in 1..Len(queue)}
\* C14: at most one Job is between its detection log line and its archival, and
\* it is the one the running on_created call handles; an entry created meanwhile
\* has its event in the queue and nothing else done to it; and the step that
\* begins the handling of a Job is taken only when no other Job is in progress
\* and every qualifying entry created before it has been archived.
C14_OneJobAtATime ==
    /\ [](Cardinality(JobsInProgress) <= 1)
    /\ [](JobsInProgress \subseteq {cur})
    /\ [](\A id \in Ids : StageOf(id) = "created" <=> id \in Queued)
    /\ [](\A id \in Ids : StageOf(id) = "created" => (invoked[id] = 0 /\ ImagesOf(id) = {}
                                                     /\ Places(id) = {INPUT_DIR}))
    /\ [][\A id \in Ids :
            (StageOf(id) # "discovered" /\ StageOf(id)' = "discovered") =>
                /\ JobsInProgress = {}
                /\ StageOf(id) = "created"
                /\ \A j \in 1..(id - 1) : StageOf(j) \in Terminal \cup {"ignored"}]_vars
C14_Witness ==
    \E i, j \in Ids :
        /\ i < j
        /\ StageOf(i) = "rendering"
        /\ cur = i
        /\ StageOf(j) = "created"
        /\ queue # <<>>
        /\ Qualifies(Head(queue))
        /\ Head(queue).id = j

\* ---- C15 --------------------------------------------------------------------
\* the stage changes of a Job the code can make: <<from, to>>
JobTransitions ==
    {<<"created", "discovered">>,
     <<"discovered", "counting">>,
     <<"counting", "scheduled">>,
     <<"counting", "failed_early">>,
     <<"scheduled", "rendering">>,
     <<"rendering", "aggregated">>,
     <<"aggregated", "archived_processed">>,
     <<"aggregated", "archived_error">>,
     <<"failed_early", "archived_error">>}
\* before there is a Job: the entry is created, and its event is filtered out
EntryTransitions == {<<"none", "created">>, <<"created", "ignored">>}
MsgsOf(lines) == [k \in 1..Len(lines) |-> lines[k].msg]
\* C15: every change of a Job's stage is one arrow of discovered -> counting ->
\* (scheduled -> rendering -> aggregated) or failed_early -> archived (processed
\* or error), entered from the queued creation event; so no stage is skipped,
\* none is entered twice (the arrows form no cycle), an archived Job never
\* changes stage again, and no Job re-enters discovered.
C15_JobStateMachine ==
    /\ [][\A id \in Ids :
            StageOf(id)' # StageOf(id) =>
                <<StageOf(id), StageOf(id)'>> \in JobTransitions \cup EntryTransitions]_vars
    /\ [][\A id \in Ids : StageOf(id) \in Terminal => StageOf(id)' = StageOf(id)]_vars
    /\ [][\A id \in Ids :
            StageOf(id)' = "discovered" => StageOf(id) \in {"created", "discovered"}]_vars
C15_Witness ==
    /\ cur = 2
    /\ StageOf(1) = "archived_error"
    /\ invoked[1] = 1
    /\ StageOf(2) = "archived_processed"
    /\ MsgsOf(log) = <<"New PDF detected", "STARTING CONVERSION", "PDF opened", "Saved Page",
                       "CONVERSION COMPLETE", "Moved to processed folder">>

\* ---- C16 --------------------------------------------------------------------
\* the Job of the running or last call has built its argument list
Scheduled == cur # 0 /\ StageOf(cur) \in {"scheduled", "rendering", "aggregated"}
\* the page indices of the argument tuples
PageIndices(page_args) == {page_args[i][2] : i \in 1..Len(page_args)}
\* C16: once the argument list is built for a document of N pages it has N
\* tuples whose page indices are exactly 0..N-1, each once and in rising order,
\* all naming the Job's file and the output folder; the step that starts the
\* pool creates one pending task for each tuple, all at once and with no result
\* consumed yet; and while the pool runs the batch has N tasks.
C16_OneTaskPerPageOneBatch ==
    /\ [](Scheduled =>
            LET N == loc.pdf_bytes.pages IN
                /\ loc.total_pages = N
                /\ Len(loc.page_args) = N
                /\ PageIndices(loc.page_args) = 0..(N - 1)
                /\ \A i \in 1..N : loc.page_args[i] =
                        <<Join(INPUT_DIR, nameOf[cur]), i - 1, OUTPUT_DIR, nameOf[cur]>>
                /\ \A i, j \in 1..N : i # j => loc.page_args[i][2] # loc.page_args[j][2])
    /\ [][(StageOf(cur) = "scheduled" /\ StageOf(cur)' = "rendering") =>
            /\ Len(task') = Len(loc.page_args)
            /\ \A i \in 1..Len(task') : task'[i].st = "pending" /\ task'[i].res = NoResult
            /\ loc.results = <<>>
            /\ loc'.results = <<>>]_vars
    /\ [](HandlerAt("rendering") => (Len(task) = loc.pdf_bytes.pages /\ loc.results = <<>>))
C16_Witness ==
    /\ HandlerAt("rendering")
    /\ loc.pdf_bytes.pages = 2
    /\ Len(task) = 2
    /\ task[1].st = "pending"
    /\ task[2].st = "pending"
    /\ loc.page_args[1][2] = 0
    /\ loc.page_args[2][2] = 1

\* ---- C17 --------------------------------------------------------------------
\* the step in which pdf_to_images_from_path reads the detected file
FirstRead == StageOf(cur) = "counting" /\ StageOf(cur)' # "counting"
\* C17 as claimed: whenever the pipeline reads the detected file, after the
\* settle delay, the process that created it has finished writing it; and no
\* page task reads it while it is being written.
C17_ReadsOnlyStableFiles ==
    /\ [][FirstRead => ~ReadFile(loc.pdf_path).writing]_vars
    /\ [](\A i \in 1..Len(task) : task[i].st = "running" => ~task[i].bytes.writing)
\* the settle delay is over, the pipeline has read and opened the file and the
\* writer is still writing to it
C17_Witness ==
    /\ HandlerAt("scheduled")
    /\ ReadFile(loc.pdf_path).id = cur
    /\ ReadFile(loc.pdf_path).writing
    /\ ReadFile(loc.pdf_path).bytes.read

\* ---- C18 --------------------------------------------------------------------
\* the names under which a created entry is a PDF file: a regular file whose
\* name ends in .pdf in any letter case
PdfFileNames == {A_PDF, A_PDF_UPPER}
\* C18: a Job begins only from the queued creation event of a regular file of
\* the input folder whose name ends in .pdf in any letter case, and every Job
\* there is belongs to such a file; the event of a sub-directory or of a file
\* with another extension is dropped in a step that changes no folder and no
\* state of the handler, and such an entry never has a Job, an image or a
\* pipeline call and stays where it was created.
C18_OnlyPdfFilesStartJobs ==
    /\ [][\A id \in Ids :
            (StageOf(id) # "discovered" /\ StageOf(id)' = "discovered") =>
                /\ queue # <<>>
                /\ Head(queue).id = id
                /\ ~Head(queue).is_directory
                /\ Head(queue).src_path = Join(INPUT_DIR, nameOf[id])
                /\ nameOf[id] \in PdfFileNames]_vars
    /\ [][\A id \in Ids :
            (StageOf(id) # "ignored" /\ StageOf(id)' = "ignored") =>
                /\ nameOf[id] \notin PdfFileNames
                /\ UNCHANGED <<fs, images, cur, loc, task, log, invoked>>]_vars
    /\ [](\A id \in Ids :
            /\ StageOf(id) \in InProgress \cup Terminal => nameOf[id] \in PdfFileNames
            /\ (StageOf(id) # "none" /\ nameOf[id] \notin PdfFileNames) =>
                    /\ StageOf(id) \in {"created", "ignored"}
                    /\ invoked[id] = 0
                    /\ ImagesOf(id) = {}
                    /\ Places(id) = {INPUT_DIR})
C18_Witness ==
    \E i, k \in Ids :
        /\ nameOf[i] = D_PDF /\ StageOf(i) = "ignored" /\ InDir(i, INPUT_DIR)
        /\ nameOf[k] = A_PDF_UPPER /\ StageOf(k) \in Terminal
        /\ fs[INPUT_DIR][A_PDF_UPPER].id = 0

\* ---- C19 --------------------------------------------------------------------
\* the positions of the successful and of the failed results of a result list
Successes(results) == {i \in 1..Len(results) : results[i][1]}
Failures(results) == {i \in 1..Len(results) : ~results[i][1]}
LinesWith(lines, msg) == {k \in 1..Len(lines) : lines[k].msg = msg}
\* C19: once the counting loop has run over the results of a Job of N pages,
\* success_count is the number of successful results and fail_count the number
\* of failed ones, every result is in exactly one of the two groups, the two
\* counters add up to N, and each counted result has its one log line.
C19_CountersPartitionResults ==
    Counted =>
        /\ Len(loc.results) = loc.total_pages
        /\ loc.success_count = Cardinality(Successes(loc.results))
        /\ loc.fail_count = Cardinality(Failures(loc.results))
        /\ Successes(loc.results) \cap Failures(loc.results) = {}
        /\ Successes(loc.results) \cup Failures(loc.results) = 1..loc.total_pages
        /\ loc.success_count + loc.fail_count = loc.total_pages
        /\ loc.total_pages = loc.pdf_bytes.pages
        /\ Cardinality(LinesWith(log, "Saved Page")) = loc.success_count
        /\ Cardinality(LinesWith(log, "Failed Page")) = loc.fail_count
C19_Witness ==
    /\ Counted
    /\ loc.total_pages = 2
    /\ loc.success_count = 0
    /\ loc.fail_count = 2
    /\ StageOf(cur) = "aggregated"

\* ---- C20 --------------------------------------------------------------------
\* the output path task i of the running batch writes to
OutputPathOf(i) == ImagePath(loc.page_args[i][3], loc.page_args[i][4], loc.page_args[i][2])
\* page indices on both sides of the points where the padded number changes
\* its digits or outgrows the four-digit field
WidthEdges == {8, 9, 9998, 9999}
\* C20: when a batch is about to be submitted its tasks derive pairwise
\* distinct output paths, and for the Job's file name the path is a one-to-one
\* function of the page index, also across the widths of the formatted page
\* number; two tasks that are between rendering and saving at the same time
\* never hold the same output path; and
\* the successful tasks of a Job have written as many distinct image files as
\* there are successes, each result naming its own.
C20_DistinctOutputPaths ==
    /\ HandlerAt("scheduled") =>
            /\ \A i, j \in 1..Len(loc.page_args) : i < j => OutputPathOf(i) # OutputPathOf(j)
            /\ \A p, q \in (0..MaxPages) \cup WidthEdges :
                    q < p => ImagePath(OUTPUT_DIR, loc.filename, p)
                                # ImagePath(OUTPUT_DIR, loc.filename, q)
    /\ HandlerAt("rendering") =>
            \A i, j \in Running : i # j => OutputPathOf(i) # OutputPathOf(j)
    /\ Counted =>
            /\ Cardinality(ImagesOf(cur)) = loc.success_count
            /\ \A i, j \in 1..Len(loc.results) :
                    (i # j /\ loc.results[i][1] /\ loc.results[j][1]) =>
                        loc.results[i][3] # loc.results[j][3]
C20_Witness ==
    /\ HandlerAt("rendering")
    /\ Running = {1, 2}
    /\ OutputPathOf(1) = Join(OUTPUT_DIR, ExpectedImage(1))
    /\ OutputPathOf(2) = Join(OUTPUT_DIR, ExpectedImage(2))

====
